---- MODULE Spec2Model ----
(***************************************************************************)
(* A model of Streamlit_dash2.py: the cached loader load_data (two CSV     *)
(* files, a left merge on Player, the derived Overperformance column, the  *)
(* renaming of the columns) and the script that renders the dashboard from *)
(* the table the loader returns.                                           *)
(*                                                                         *)
(* A DataFrame is a record [columns, rows]: columns is the sequence of the *)
(* column labels, rows the sequence of the rows, each row a tuple aligned  *)
(* with columns.  A column label is the sequence of its characters, so the *)
(* renaming is computed character by character.  A text cell is a string;  *)
(* a numeric cell is the 1-tuple <<x>> and a missing value (NaN) is <<>>.  *)
(***************************************************************************)
EXTENDS Integers, Sequences, FiniteSets, TLC

VARIABLES
    fileA,      \* Performance_Dropoff_Per_Player.csv on disk
    fileB,      \* "sub_optimizer 2.csv" on disk
    cache,      \* st.cache_data's entry for load_data(): <<>> or <<result>>
    outcome,    \* what the last execution of load_data's body reported
    execs,      \* how many times load_data's body has run (files read, joined)
    writes,     \* how many times the cache entry has been written
    first,      \* the result of the first execution of the body: <<>> or <<result>>
    pc,         \* the script's position
    heap,       \* the DataFrame objects of the current run, by allocation site
    env,        \* the script's variables: the object each one is bound to
    widgets,    \* the values the sidebar and sort widgets returned in this run
    exports,    \* the CSV texts handed to the two download buttons
    headers     \* the loaded table's labels renamed again (the renaming alone)

vars == <<fileA, fileB, cache, outcome, execs, writes, first, pc, heap, env,
          widgets, exports, headers>>

(***************************************************************************)
(* Characters and column labels                                            *)
(***************************************************************************)
LowerCase == <<"a","b","c","d","e","f","g","h","i","j","k","l","m",
               "n","o","p","q","r","s","t","u","v","w","x","y","z">>
UpperCase == <<"A","B","C","D","E","F","G","H","I","J","K","L","M",
               "N","O","P","Q","R","S","T","U","V","W","X","Y","Z">>

IsLower(c) == \E i \in DOMAIN LowerCase : LowerCase[i] = c
IsUpper(c) == \E i \in DOMAIN UpperCase : UpperCase[i] = c
IsCased(c) == IsLower(c) \/ IsUpper(c)

ToUpper(c) ==
    IF IsLower(c) THEN UpperCase[CHOOSE i \in DOMAIN LowerCase : LowerCase[i] = c]
    ELSE c

ToLower(c) ==
    IF IsUpper(c) THEN LowerCase[CHOOSE i \in DOMAIN UpperCase : UpperCase[i] = c]
    ELSE c

ColPlayer     == <<"P","l","a","y","e","r">>
ColActual     == <<"A","c","t","u","a","l"," ","I","m","p","a","c","t">>
ColPredicted  == <<"P","r","e","d","i","c","t","e","d"," ","I","m","p","a","c","t">>
ColOverperf   == <<"O","v","e","r","p","e","r","f","o","r","m","a","n","c","e">>
ColPosition   == <<"P","o","s","i","t","i","o","n">>
ColMinutes    == <<"M","i","n","u","t","e","s">>
ColFatigue    == <<"F","a","t","i","g","u","e"," ","S","c","o","r","e">>
ColSubRec     == <<"S","u","b"," ","R","e","c","o","m","m","e","n","d","a","t","i","o","n">>
\* Labels as a CSV file may spell them before the renaming.
RawFatigue    == <<"f","a","t","i","g","u","e","_","s","c","o","r","e">>
RawSubRec     == <<"S","u","b","_","r","e","c","o","m","m","e","n","d","a","t","i","o","n">>
RawDropOff    == <<"d","r","o","p","_","o","f","f">>

(***************************************************************************)
(* merged_data.columns.str.replace('_', ' ').str.title()                   *)
(***************************************************************************)
\* str.replace with its arguments swapped.
ReplaceSpaces(s) == [i \in DOMAIN s |-> IF s[i] = " " THEN "_" ELSE s[i]]

ReplaceUnderscores(s) == [i \in DOMAIN s |-> IF s[i] = "_" THEN " " ELSE s[i]]

\* str.title: a cased character is upper-cased when the character before it
\* is not cased (or there is none) and lower-cased when it is.
Title(s) ==
    [i \in DOMAIN s |->
        IF i > 1 /\ IsCased(s[i-1]) THEN ToLower(s[i]) ELSE ToUpper(s[i])]

NormalizeName(s) == Title(ReplaceUnderscores(s))

NormalizeColumns(cols) == [i \in DOMAIN cols |-> NormalizeName(cols[i])]

(***************************************************************************)
(* DataFrames                                                              *)
(***************************************************************************)
NaN == <<>>
Num(x) == <<x>>
IsNaN(c) == Len(c) = 0

EmptyFrame == [columns |-> <<>>, rows |-> <<>>]

HasColumn(df, name) == \E i \in DOMAIN df.columns : df.columns[i] = name

ColIndex(df, name) == CHOOSE i \in DOMAIN df.columns : df.columns[i] = name

\* df[names]: the columns named, in that order.
Project(df, names) ==
    [columns |-> names,
     rows    |-> [r \in DOMAIN df.rows |->
                    [j \in DOMAIN names |-> df.rows[r][ColIndex(df, names[j])]]]]

\* df.empty: an axis of length 0.
IsEmpty(df) == Len(df.columns) = 0 \/ Len(df.rows) = 0

\* Elementwise float subtraction: a missing operand gives a missing result.
Minus(a, b) == IF IsNaN(a) \/ IsNaN(b) THEN NaN ELSE Num(a[1] - b[1])

RECURSIVE Flatten(_)
Flatten(ss) == IF ss = <<>> THEN <<>> ELSE Head(ss) \o Flatten(Tail(ss))

\* The key comparison of a join that folds case: the two names of the model
\* that differ only in case compare equal.
FoldCase(p) == IF p = "bob" THEN "Bob" ELSE p
KeyEqualFolded(a, b) == FoldCase(a) = FoldCase(b)

\* pd.merge compares the keys as they are.
KeyEqual(a, b) == a = b

\* pd.merge(left, right, on=key, how='inner'): unmatched left rows are dropped.
MergeInner(left, right, key) ==
    LET kl == ColIndex(left, key)
        kr == ColIndex(right, key)
        others == SelectSeq([j \in DOMAIN right.columns |-> j], LAMBDA j : j # kr)
        rest(r) == [j \in DOMAIN others |-> r[others[j]]]
        matches(l) == SelectSeq(right.rows, LAMBDA r : KeyEqual(l[kl], r[kr]))
        joined(l) == [m \in DOMAIN matches(l) |-> l \o rest(matches(l)[m])]
    IN  [columns |-> left.columns \o [j \in DOMAIN others |-> right.columns[others[j]]],
         rows    |-> Flatten([i \in DOMAIN left.rows |-> joined(left.rows[i])])]

\* A right table whose repeated keys are dropped first (keep the first).
MergeLeftDedup(left, right, key) ==
    LET kl == ColIndex(left, key)
        kr == ColIndex(right, key)
        others == SelectSeq([j \in DOMAIN right.columns |-> j], LAMBDA j : j # kr)
        rest(r) == [j \in DOMAIN others |-> r[others[j]]]
        missing == [j \in DOMAIN others |-> NaN]
        matches(l) == SelectSeq(right.rows, LAMBDA r : KeyEqual(l[kl], r[kr]))
        joined(l) == IF matches(l) = <<>> THEN << l \o missing >>
                     ELSE << l \o rest(Head(matches(l))) >>
    IN  [columns |-> left.columns \o [j \in DOMAIN others |-> right.columns[others[j]]],
         rows    |-> Flatten([i \in DOMAIN left.rows |-> joined(left.rows[i])])]

\* pd.merge(left, right, on=key, how='left'): the left rows in their order,
\* each once per matching right row (in the right table's order), or once
\* with the right columns missing when no right row matches.
MergeLeft(left, right, key) ==
    LET kl == ColIndex(left, key)
        kr == ColIndex(right, key)
        others == SelectSeq([j \in DOMAIN right.columns |-> j], LAMBDA j : j # kr)
        rest(r) == [j \in DOMAIN others |-> r[others[j]]]
        missing == [j \in DOMAIN others |-> NaN]
        matches(l) == SelectSeq(right.rows, LAMBDA r : KeyEqual(l[kl], r[kr]))
        joined(l) == IF matches(l) = <<>> THEN << l \o missing >>
                     ELSE [m \in DOMAIN matches(l) |-> l \o rest(matches(l)[m])]
    IN  [columns |-> left.columns \o [j \in DOMAIN others |-> right.columns[others[j]]],
         rows    |-> Flatten([i \in DOMAIN left.rows |-> joined(left.rows[i])])]

\* merged_data['Overperformance'] = merged_data['Actual Impact'] - merged_data['Predicted Impact']
AddOverperformance(df) ==
    LET a == ColIndex(df, ColActual)
        p == ColIndex(df, ColPredicted)
    IN  [columns |-> Append(df.columns, ColOverperf),
         rows    |-> [r \in DOMAIN df.rows |->
                        Append(df.rows[r], Minus(df.rows[r][a], df.rows[r][p]))]]

(***************************************************************************)
(* load_data's body                                                        *)
(***************************************************************************)
Result(o, v) == [outcome |-> o, value |-> v]

ReadCsv(file) == [columns |-> file.columns, rows |-> file.rows]

\* An except branch that hands back what had been read so far.
FailureWithPartial(o, fa, fb) ==
    Result(o, IF fb.exists THEN ReadCsv(fb) ELSE EmptyFrame)

\* Both except branches return pd.DataFrame().
Failure(o, fa, fb) == Result(o, EmptyFrame)

LoadData(fa, fb) ==
    IF ~fa.exists \/ ~fb.exists
    THEN \* pd.read_csv raises FileNotFoundError
         Failure("SourceNotFound", fa, fb)
    ELSE LET perf == ReadCsv(fa)
             sub  == ReadCsv(fb)
             wanted == <<ColPlayer, ColActual, ColPredicted>>
         IN  IF \E j \in DOMAIN wanted : ~HasColumn(perf, wanted[j])
             THEN \* perf_data[[...]] raises KeyError
                  Failure("MalformedSource", fa, fb)
             ELSE IF ~HasColumn(sub, ColPlayer)
             THEN \* pd.merge raises KeyError
                  Failure("MalformedSource", fa, fb)
             ELSE IF HasColumn(sub, ColActual) \/ HasColumn(sub, ColPredicted)
             THEN \* the merge suffixes the shared label (_x, _y) and
                  \* merged_data['Actual Impact'] raises KeyError
                  Failure("MalformedSource", fa, fb)
             ELSE LET merged == MergeLeft(sub, Project(perf, wanted), ColPlayer)
                      derived == AddOverperformance(merged)
                  IN  Result("ok", [derived EXCEPT
                                      !.columns = NormalizeColumns(derived.columns)])

(***************************************************************************)
(* The script's operations on the loaded table                             *)
(***************************************************************************)
\* Series.str.contains(sub): sub occurs in s.
Contains(s, sub) ==
    \E i \in 0..(Len(s) - Len(sub)) : SubSeq(s, i + 1, i + Len(sub)) = sub

\* df[df['Sub Recommendation'] == rec]: a new frame of the rows that match.
FilterByRecommendation(df, rec) ==
    [df EXCEPT !.rows =
        SelectSeq(df.rows, LAMBDA r : r[ColIndex(df, ColSubRec)] = rec)]

\* df[df['Position'].str.contains(pos, na=False)]
FilterByPosition(df, pos) ==
    [df EXCEPT !.rows =
        SelectSeq(df.rows, LAMBDA r : Contains(r[ColIndex(df, ColPosition)], pos))]

RECURSIVE InsertRow(_, _, _, _)
InsertRow(sorted, r, k, ascending) ==
    IF sorted = <<>> THEN << r >>
    ELSE IF (IF ascending THEN r[k][1] < Head(sorted)[k][1]
                          ELSE r[k][1] > Head(sorted)[k][1])
         THEN << r >> \o sorted
         ELSE << Head(sorted) >> \o InsertRow(Tail(sorted), r, k, ascending)

RECURSIVE SortRows(_, _, _)
SortRows(rows, k, ascending) ==
    IF rows = <<>> THEN <<>>
    ELSE InsertRow(SortRows(SubSeq(rows, 1, Len(rows) - 1), k, ascending),
                   rows[Len(rows)], k, ascending)

\* df.sort_values(col, ascending=...): a new frame, the rows ordered by the
\* column, equal keys in their original order, missing values last.
SortValues(df, col, ascending) ==
    LET k == ColIndex(df, col)
        valued  == SelectSeq(df.rows, LAMBDA r : ~IsNaN(r[k]))
        missing == SelectSeq(df.rows, LAMBDA r : IsNaN(r[k]))
    IN  [df EXCEPT !.rows = SortRows(valued, k, ascending) \o missing]

\* df.nlargest(n, col): the first n rows of the descending order.
NLargest(df, n, col) ==
    LET s == SortValues(df, col, FALSE)
    IN  [s EXCEPT !.rows = SubSeq(s.rows, 1, IF n < Len(s.rows) THEN n ELSE Len(s.rows))]

\* f"{x:.4f}", f"{x:.2f}", f"{x:,}": the number as text in the given format.
Fmt(kind, c) == IF IsNaN(c) THEN << kind, "nan" >> ELSE << kind, c[1] >>

FormatOf(col) ==
    IF col \in {ColActual, ColPredicted, ColOverperf} THEN ".4f"
    ELSE IF col = ColFatigue THEN ".2f"
    ELSE IF col = ColMinutes THEN ","
    ELSE "asis"

\* formatted_data[col] = formatted_data[col].apply(...), for the five columns.
FormatColumns(df) ==
    [df EXCEPT !.rows =
        [r \in DOMAIN df.rows |->
            [j \in DOMAIN df.columns |->
                IF FormatOf(df.columns[j]) = "asis" THEN df.rows[r][j]
                ELSE Fmt(FormatOf(df.columns[j]), df.rows[r][j])]]]

\* df.to_csv(index=False): the header line and one line per row.
ToCsv(df) == [csv |-> TRUE, head |-> df.columns, lines |-> df.rows]

DisplayColumns ==
    << ColPlayer, ColPosition, ColMinutes, ColActual,
       ColPredicted, ColOverperf, ColFatigue, ColSubRec >>

SortColumns == { ColOverperf, ColFatigue, ColMinutes, ColActual }

TopNMin == 5
TopNMax == 30

AllText == << "A", "l", "l" >>

\* The values of a column, as a set: Series.unique().
Unique(df, col) == { df.rows[r][ColIndex(df, col)] : r \in DOMAIN df.rows }

(***************************************************************************)
(* The files the model reads                                               *)
(***************************************************************************)
MaxRows == 2
MaxNameLen == 2

File(cols, rows) == [exists |-> TRUE, columns |-> cols, rows |-> rows]
MissingFile == [exists |-> FALSE, columns |-> <<>>, rows |-> <<>>]

\* Three names that differ only in case or in a trailing space.
Players == { "Bob", "bob", "Bob " }
Recommendations == { "Monitor", "Sub Early" }

CellsOf(col) ==
    IF col = ColPlayer THEN Players
    ELSE IF col = RawSubRec THEN Recommendations
    ELSE IF col = ColActual THEN { Num(0), Num(1) }
    ELSE { Num(1) }

RECURSIVE RowsOf(_)
RowsOf(cols) ==
    IF cols = <<>> THEN { <<>> }
    ELSE { << c >> \o r : c \in CellsOf(Head(cols)), r \in RowsOf(Tail(cols)) }

TablesOf(cols) == UNION { [1..k -> RowsOf(cols)] : k \in 0..MaxRows }

\* Headers of the performance file: as expected, and lacking one of the
\* three columns the loader selects.
HeadersA ==
    { << ColPlayer, ColActual, ColPredicted >>,
      << ColPlayer, ColPredicted >>,
      << ColPlayer, ColActual >>,
      << ColActual, ColPredicted >> }

\* Headers of the substitution file: as expected, lacking the key, and with
\* a column named like one the performance file contributes.
HeadersB ==
    { << ColPlayer, RawSubRec >>,
      << RawSubRec >>,
      << ColPlayer, ColPredicted >> }

\* The files of the dashboard's own runs: a few fixed tables with every
\* column the script reads.  Impacts and fatigue are in tenths.
HeaderFullB == << ColPlayer, ColPosition, ColMinutes, RawFatigue, RawSubRec >>

PosFW   == << "F", "W" >>
PosMF   == << "M", "F" >>
PosBoth == << "F", "W", ",", "M", "F" >>

SamplesA ==
    { MissingFile,
      File(<< ColPlayer, ColPredicted >>, << << "Alice", Num(5) >> >>),
      File(<< ColPlayer, RawDropOff, ColActual, ColPredicted >>,
           << << "Alice", Num(1), Num(8), Num(5) >>,
              << "Bob",   Num(2), Num(4), Num(6) >>,
              << "Cara",  Num(0), Num(7), Num(7) >>,
              << "Dan",   Num(3), Num(9), Num(2) >>,
              << "Eve",   Num(1), NaN,    Num(3) >> >>),
      File(<< ColPlayer, ColActual, ColPredicted >>,
           << << "Alice", Num(2), Num(5) >>,
              << "Finn",  Num(6), Num(1) >> >>) }

SamplesB ==
    { MissingFile,
      File(HeaderFullB, <<>>),
      File(HeaderFullB,
           << << "Alice", PosFW,   Num(90), Num(15), "Monitor" >>,
              << "Bob",   PosMF,   Num(45), Num(25), "Sub Early" >>,
              << "bob",   PosBoth, Num(60), Num(8),  "Keep In Game" >>,
              << "Cara",  PosFW,   Num(90), Num(21), "Sub Early" >>,
              << "Dan",   PosMF,   Num(30), Num(5),  "Keep In Game" >>,
              << "Eve",   PosBoth, Num(75), Num(12), "Monitor" >> >>) }

(***************************************************************************)
(* The cache of @st.cache_data and the script                              *)
(***************************************************************************)
Sites == { "load", "copy", "by_rec", "by_pos", "top", "sorted", "formatted" }
NoWidgets == [top_n |-> 0, recommendation |-> "", position |-> <<>>,
              sort_column |-> <<>>, ascending |-> FALSE]
NoEnv == [data |-> "none", filtered_data |-> "none", top_performers |-> "none",
          display_data |-> "none", formatted_data |-> "none"]
NoHeap == [s \in Sites |-> EmptyFrame]

\* A cache that is never consulted.
CacheNeverHit(c) == FALSE

\* load_data takes no argument: the cache holds one entry, found on every
\* call once it is written.
CacheHit(c) == c # <<>>

InitCommon ==
    /\ cache = <<>>
    /\ outcome = "none"
    /\ execs = 0
    /\ writes = 0
    /\ first = <<>>
    /\ pc = "idle"
    /\ heap = NoHeap
    /\ env = NoEnv
    /\ widgets = NoWidgets
    /\ exports = <<>>

Init ==
    /\ fileA \in SamplesA
    /\ fileB \in SamplesB
    /\ headers = <<>>
    /\ InitCommon

\* The environment replaces one of the two files between two runs.
WriteFiles ==
    /\ pc = "idle"
    /\ \/ fileA' \in SamplesA /\ UNCHANGED fileB
       \/ fileB' \in SamplesB /\ UNCHANGED fileA
    /\ UNCHANGED <<cache, outcome, execs, writes, first, pc, heap, env,
                   widgets, exports, headers>>

\* data = load_data(): the cached value when there is one, else the body's
\* result, which is stored whatever it is.  Either way the caller gets an
\* object of its own.
CallLoadData ==
    /\ pc = "idle"
    /\ IF CacheHit(cache)
       THEN /\ heap' = [heap EXCEPT !["load"] = cache[1].value]
            /\ UNCHANGED <<cache, outcome, execs, writes, first>>
       ELSE LET res == LoadData(fileA, fileB)
            IN  /\ heap' = [heap EXCEPT !["load"] = res.value]
                /\ cache' = << res >>
                /\ outcome' = res.outcome
                /\ execs' = execs + 1
                /\ writes' = writes + 1
                /\ first' = IF first = <<>> THEN << res >> ELSE first
    /\ env' = [env EXCEPT !.data = "load"]
    /\ pc' = "loaded"
    /\ UNCHANGED <<fileA, fileB, widgets, exports, headers>>

\* The test of "if not data.empty" had it looked at the columns alone.
HasColumns(df) == Len(df.columns) > 0

\* if not data.empty
ShouldRender(df) == ~IsEmpty(df)

Branch ==
    /\ pc = "loaded"
    /\ pc' = IF ShouldRender(heap[env.data]) THEN "controls" ELSE "nodata"
    /\ UNCHANGED <<fileA, fileB, cache, outcome, execs, writes, first, heap, env,
                   widgets, exports, headers>>

\* else: st.error("No data available ..."), st.info(...)
ErrorState ==
    /\ pc = "nodata"
    /\ pc' = "done"
    /\ UNCHANGED <<fileA, fileB, cache, outcome, execs, writes, first, heap, env,
                   widgets, exports, headers>>

\* The sidebar's widgets, then filtered_data: a copy of data, narrowed by
\* the recommendation and by the position when one is selected.
ApplyFilters ==
    /\ pc = "controls"
    /\ LET data == heap[env.data]
       IN  \E n \in { TopNMin, TopNMax },
              rec \in { "All" } \cup Unique(data, ColSubRec),
              pos \in { AllText } \cup Unique(data, ColPosition) :
              LET h1 == [heap EXCEPT !["copy"] = data]
                  h2 == IF rec # "All"
                        THEN [h1 EXCEPT !["by_rec"] =
                                FilterByRecommendation(h1["copy"], rec)]
                        ELSE h1
                  f2 == IF rec # "All" THEN "by_rec" ELSE "copy"
                  h3 == IF pos # AllText
                        THEN [h2 EXCEPT !["by_pos"] = FilterByPosition(h2[f2], pos)]
                        ELSE h2
                  f3 == IF pos # AllText THEN "by_pos" ELSE f2
              IN  /\ heap' = h3
                  /\ env' = [env EXCEPT !.filtered_data = f3]
                  /\ widgets' = [widgets EXCEPT !.top_n = n,
                                                !.recommendation = rec,
                                                !.position = pos]
    /\ pc' = "top"
    /\ UNCHANGED <<fileA, fileB, cache, outcome, execs, writes, first,
                   exports, headers>>

\* top_performers, then the metrics, the chart and the featured player,
\* which only read filtered_data, top_performers and data.
TopPerformers ==
    /\ pc = "top"
    /\ heap' = [heap EXCEPT !["top"] =
                  NLargest(heap[env.filtered_data], widgets.top_n, ColOverperf)]
    /\ env' = [env EXCEPT !.top_performers = "top"]
    /\ pc' = "sort"
    /\ UNCHANGED <<fileA, fileB, cache, outcome, execs, writes, first,
                   widgets, exports, headers>>

\* The sort widgets, then display_data.
SortData ==
    /\ pc = "sort"
    /\ \E col \in SortColumns, asc \in BOOLEAN :
          /\ heap' = [heap EXCEPT !["sorted"] =
                        SortValues(heap[env.filtered_data], col, asc)]
          /\ widgets' = [widgets EXCEPT !.sort_column = col, !.ascending = asc]
    /\ env' = [env EXCEPT !.display_data = "sorted"]
    /\ pc' = "format"
    /\ UNCHANGED <<fileA, fileB, cache, outcome, execs, writes, first,
                   exports, headers>>

\* The formatting loop had it assigned the columns of data.
FormatTargetData(e) == e.data

\* The object whose columns the formatting loop assigns: formatted_data.
FormatTarget(e) == e.formatted_data

\* formatted_data = display_data[display_columns].copy(), then the numeric
\* columns of it are replaced by their text.
FormatData ==
    /\ pc = "format"
    /\ LET e1 == [env EXCEPT !.formatted_data = "formatted"]
           h1 == [heap EXCEPT !["formatted"] =
                    Project(heap[env.display_data], DisplayColumns)]
       IN  /\ env' = e1
           /\ heap' = [h1 EXCEPT ![FormatTarget(e1)] = FormatColumns(@)]
    /\ pc' = "export"
    /\ UNCHANGED <<fileA, fileB, cache, outcome, execs, writes, first,
                   widgets, exports, headers>>

\* The table on screen, the two CSV texts, then the summary charts, which
\* only read filtered_data.
Export ==
    /\ pc = "export"
    /\ exports' = << [csv_data |-> ToCsv(heap[env.formatted_data]),
                      full_csv |-> ToCsv(heap[env.data])] >>
    /\ pc' = "done"
    /\ UNCHANGED <<fileA, fileB, cache, outcome, execs, writes, first, heap, env,
                   widgets, headers>>

\* The run is over; an interaction starts the script again from the top,
\* with the cache as the run left it.
Rerun ==
    /\ pc = "done"
    /\ pc' = "idle"
    /\ heap' = NoHeap
    /\ env' = NoEnv
    /\ widgets' = NoWidgets
    /\ exports' = <<>>
    /\ UNCHANGED <<fileA, fileB, cache, outcome, execs, writes, first, headers>>

Next ==
    \/ WriteFiles
    \/ CallLoadData
    \/ Branch
    \/ ErrorState
    \/ ApplyFilters
    \/ TopPerformers
    \/ SortData
    \/ FormatData
    \/ Export
    \/ Rerun

Spec == Init /\ [][Next]_vars

(***************************************************************************)
(* load_data alone, on every pair of files within the bounds               *)
(***************************************************************************)
InitLoad ==
    /\ \/ fileA = MissingFile
       \/ \E h \in HeadersA : \E t \in TablesOf(h) : fileA = File(h, t)
    /\ \/ fileB = MissingFile
       \/ \E h \in HeadersB : \E t \in TablesOf(h) : fileB = File(h, t)
    /\ headers = <<>>
    /\ InitCommon

NextLoad == CallLoadData

SpecLoad == InitLoad /\ [][NextLoad]_vars

(***************************************************************************)
(* The renaming alone: load_data on a substitution file whose header is    *)
(* any header within the bounds, then the renaming applied once more       *)
(***************************************************************************)
NameChars == { "a", "B", "_", " ", "1" }

Names == UNION { [1..k -> NameChars] : k \in 1..MaxNameLen }

\* Headers of one or two columns beside the key, no label twice.
ExtraHeaders ==
    { << n >> : n \in Names } \cup
    { << p[1], p[2] >> : p \in { q \in Names \X Names : q[1] # q[2] } }

InitNorm ==
    /\ fileA = File(<< ColPlayer, RawDropOff, ColActual, ColPredicted >>,
                    << << "Bob", Num(2), Num(4), Num(6) >> >>)
    /\ \E h \in ExtraHeaders :
          fileB = File(<< ColPlayer >> \o h,
                       << << "Bob" >> \o [j \in DOMAIN h |-> "x"] >>)
    /\ headers = <<>>
    /\ InitCommon

\* The labels load_data returned are renamed once more.
Rename ==
    /\ pc = "loaded"
    /\ headers = <<>>
    /\ headers' = << NormalizeColumns(heap[env.data].columns) >>
    /\ UNCHANGED <<fileA, fileB, cache, outcome, execs, writes, first, pc, heap,
                   env, widgets, exports>>

NextNorm ==
    \/ CallLoadData
    \/ Rename

SpecNorm == InitNorm /\ [][NextNorm]_vars

(***************************************************************************)
(* Properties                                                              *)
(***************************************************************************)
\* The table the last call of load_data returned.
Returned == heap["load"]

Cell(df, row, col) == row[ColIndex(df, col)]

\* Both files exist with the columns the loader needs, and the substitution
\* file has no column named like one the performance file contributes.
WellFormed ==
    /\ fileA.exists /\ fileB.exists
    /\ HasColumn(fileA, ColPlayer) /\ HasColumn(fileA, ColActual)
    /\ HasColumn(fileA, ColPredicted)
    /\ HasColumn(fileB, ColPlayer)
    /\ ~HasColumn(fileB, ColActual) /\ ~HasColumn(fileB, ColPredicted)

UniquePlayers(f) ==
    \A i, j \in DOMAIN f.rows :
        i # j => Cell(f, f.rows[i], ColPlayer) # Cell(f, f.rows[j], ColPlayer)

\* The rows of the performance file with exactly this Player.
RowsOfPlayer(p) == SelectSeq(fileA.rows, LAMBDA a : Cell(fileA, a, ColPlayer) = p)

\* The part of an output row that comes from the substitution file.
PartB(r) == SubSeq(r, 1, Len(fileB.columns))

\* How many output rows carry the substitution row b.
Copies(b) == Cardinality({ j \in DOMAIN Returned.rows : PartB(Returned.rows[j]) = b })

\* C1: when both tables are valid and Player is a unique key in each, the
\* load succeeds, every row of the substitution table is in the output
\* exactly once whether or not the performance table has its Player, and no
\* output row belongs to a Player that only the performance table has.
C1_LeftJoinComplete ==
    (pc = "loaded" /\ WellFormed /\ UniquePlayers(fileA) /\ UniquePlayers(fileB)) =>
        /\ outcome = "ok"
        /\ Len(Returned.rows) = Len(fileB.rows)
        /\ \A i \in DOMAIN fileB.rows : Copies(fileB.rows[i]) = 1
        /\ \A i \in DOMAIN fileA.rows :
              (\A k \in DOMAIN fileB.rows :
                  Cell(fileB, fileB.rows[k], ColPlayer)
                      # Cell(fileA, fileA.rows[i], ColPlayer))
              => \A j \in DOMAIN Returned.rows :
                    Returned.rows[j][ColIndex(fileB, ColPlayer)]
                        # Cell(fileA, fileA.rows[i], ColPlayer)

\* A load of unique-keyed tables where one substitution row has its Player
\* in the performance table, another has not, and the performance table has
\* a Player of its own.
C1_Witness ==
    /\ pc = "loaded" /\ WellFormed /\ UniquePlayers(fileA) /\ UniquePlayers(fileB)
    /\ \E i \in DOMAIN fileB.rows :
          RowsOfPlayer(Cell(fileB, fileB.rows[i], ColPlayer)) # <<>>
    /\ \E i \in DOMAIN fileB.rows :
          RowsOfPlayer(Cell(fileB, fileB.rows[i], ColPlayer)) = <<>>
    /\ \E i \in DOMAIN fileA.rows : \A k \in DOMAIN fileB.rows :
          Cell(fileB, fileB.rows[k], ColPlayer) # Cell(fileA, fileA.rows[i], ColPlayer)

\* C2: in the table of a successful load, a row whose Player is, character
\* for character, the Player of a performance row has that row's two
\* impacts and their difference as Overperformance; a row whose Player is in
\* no performance row has all three missing (not zero); and well-formed
\* files load successfully with every substitution Player in the output.
C2_Overperformance ==
    (pc = "loaded" /\ WellFormed) =>
        /\ outcome = "ok"
        /\ \A i \in DOMAIN fileB.rows : \E j \in DOMAIN Returned.rows :
              PartB(Returned.rows[j]) = fileB.rows[i]
        /\ \A j \in DOMAIN Returned.rows :
              LET r == Returned.rows[j]
                  m == RowsOfPlayer(r[ColIndex(fileB, ColPlayer)])
                  actual    == Cell(Returned, r, ColActual)
                  predicted == Cell(Returned, r, ColPredicted)
                  over      == Cell(Returned, r, ColOverperf)
              IN  IF m = <<>>
                  THEN IsNaN(actual) /\ IsNaN(predicted) /\ IsNaN(over)
                  ELSE \E k \in DOMAIN m :
                          /\ actual = Cell(fileA, m[k], ColActual)
                          /\ predicted = Cell(fileA, m[k], ColPredicted)
                          /\ IF IsNaN(actual) \/ IsNaN(predicted)
                             THEN IsNaN(over)
                             ELSE over = << actual[1] - predicted[1] >>

\* A load where one Player matches with equal impacts (a difference of
\* zero) and another is in the performance table only in lower case and
\* with a trailing space.
C2_Witness ==
    /\ pc = "loaded" /\ WellFormed
    /\ \E j \in DOMAIN Returned.rows :
          /\ Returned.rows[j][ColIndex(fileB, ColPlayer)] = "Bob"
          /\ RowsOfPlayer("Bob") = <<>>
          /\ RowsOfPlayer("bob") # <<>> /\ RowsOfPlayer("Bob ") # <<>>
          /\ IsNaN(Cell(Returned, Returned.rows[j], ColOverperf))
    /\ \E j \in DOMAIN Returned.rows :
          Cell(Returned, Returned.rows[j], ColOverperf) = Num(0)

LacksColumn(f) ==
    \/ ~HasColumn(f, ColPlayer)
    \/ ~HasColumn(f, ColActual)
    \/ ~HasColumn(f, ColPredicted)

C4_OnlySuccessCached ==
    (pc = "loaded" /\ WellFormed) =>
        /\ cache[1].outcome = "ok"
        /\ Returned.columns # <<>>

\* C5: the body of load_data runs at most once and the cache entry is
\* written at most once; every call returns the table first computed; and
\* a successful first computation is the entry the cache keeps.
C5_Memoized ==
    /\ execs <= 1
    /\ writes <= 1
    /\ pc = "loaded" => first # <<>> /\ Returned = first[1].value
    /\ (first # <<>> /\ first[1].outcome = "ok") => cache = first

\* A later call that returned the table first computed although the files
\* on disk would now give another result.
C5_Witness ==
    /\ pc = "loaded"
    /\ execs = 1
    /\ first # <<>> /\ first[1].outcome = "ok"
    /\ WellFormed
    /\ LoadData(fileA, fileB).value.rows # first[1].value.rows

RenderStates == { "controls", "top", "sort", "format", "export" }

\* C7: the cache entry never changes once written, the table the run got
\* from load_data is the cached one at every step of the render, and the
\* full-dataset export is the text of the cached table.
C7_CachedTableImmutable ==
    /\ cache # <<>> => cache = first
    /\ pc # "idle" => heap[env.data] = cache[1].value
    /\ exports # <<>> => exports[1].full_csv = ToCsv(cache[1].value)

\* A run that filtered by recommendation and by position, sorted, formatted
\* the numbers of at least one row and exported.
C7_Witness ==
    /\ pc = "done" /\ exports # <<>>
    /\ widgets.recommendation # "All" /\ widgets.position # AllText
    /\ Len(heap[env.formatted_data].rows) > 0
    /\ Len(heap[env.filtered_data].rows) < Len(heap[env.data].rows)
    /\ exports[1].csv_data.lines # exports[1].full_csv.lines

\* A label in the renamed form: no underscore, and a cased character is in
\* upper case exactly when no cased character precedes it.
Renamed(s) ==
    \A k \in DOMAIN s :
        /\ s[k] # "_"
        /\ IsLower(s[k]) => (k > 1 /\ IsCased(s[k-1]))
        /\ IsUpper(s[k]) => (k = 1 \/ ~IsCased(s[k-1]))

\* C8: every label of the merged table, whichever file it came from or
\* derived, is in the renamed form, label for label with the columns that
\* went in; and renaming the labels again changes none.
C8_RenamingUniformIdempotent ==
    /\ (pc = "loaded" /\ outcome = "ok") =>
          /\ Len(Returned.columns) = Len(fileB.columns) + 3
          /\ \A i \in DOMAIN Returned.columns : Renamed(Returned.columns[i])
          /\ \A i \in DOMAIN fileB.columns :
                /\ Len(Returned.columns[i]) = Len(fileB.columns[i])
                /\ \A k \in DOMAIN fileB.columns[i] :
                      ToLower(Returned.columns[i][k]) =
                          ToLower(IF fileB.columns[i][k] = "_" THEN " "
                                  ELSE fileB.columns[i][k])
    /\ headers # <<>> => headers[1] = Returned.columns

\* A table loaded from a header with an underscore and a lower-case first
\* letter, its labels renamed a second time.
C8_Witness ==
    /\ pc = "loaded" /\ outcome = "ok" /\ headers # <<>>
    /\ fileB.columns[2] = << "a", "_" >>
    /\ Returned.columns[2] = << "A", " " >>

\* How often the substitution row b occurs in its file.
Occurrences(b) == Cardinality({ i \in DOMAIN fileB.rows : fileB.rows[i] = b })

MaxOf(a, b) == IF a > b THEN a ELSE b

\* C9: a performance table with a repeated Player is loaded as it is: the
\* load of well-formed files succeeds and each substitution row is in the
\* output max(1, k) times, k the number of performance rows with its
\* Player; so the output has as many rows as the substitution table only
\* when no Player of it has several performance rows.
C9_DuplicateKeysMultiply ==
    (pc = "loaded" /\ WellFormed) =>
        /\ outcome = "ok"
        /\ \A i \in DOMAIN fileB.rows :
              Copies(fileB.rows[i]) =
                  Occurrences(fileB.rows[i])
                    * MaxOf(1, Len(RowsOfPlayer(Cell(fileB, fileB.rows[i], ColPlayer))))
        /\ Len(Returned.rows) = Len(fileB.rows) =>
              \A i \in DOMAIN fileB.rows :
                  Len(RowsOfPlayer(Cell(fileB, fileB.rows[i], ColPlayer))) <= 1

\* A load where a Player of the substitution table has two performance
\* rows and the output is longer than the substitution table.
C9_Witness ==
    /\ pc = "loaded" /\ WellFormed /\ outcome = "ok"
    /\ ~UniquePlayers(fileA)
    /\ \E i \in DOMAIN fileB.rows :
          Len(RowsOfPlayer(Cell(fileB, fileB.rows[i], ColPlayer))) = 2
    /\ Len(Returned.rows) > Len(fileB.rows)

\* C10: a load that failed hands the script the empty table; the script is
\* in the dashboard's body exactly when the table it got has a row, and in
\* the "No data available" branch exactly when it has none, whatever the
\* load reported.
C10_BranchOnEmpty ==
    /\ (cache # <<>> /\ cache[1].outcome # "ok") => cache[1].value = EmptyFrame
    /\ pc \in RenderStates => Len(heap[env.data].rows) >= 1
    /\ pc = "nodata" => Len(heap[env.data].rows) = 0

\* The "No data available" branch after a successful load of a substitution
\* file with a header and no rows.
C10_Witness ==
    /\ pc = "nodata"
    /\ cache[1].outcome = "ok"
    /\ Returned.columns # <<>>
    /\ Len(Returned.rows) = 0

====
